---- MODULE Spec2Model ----
(***************************************************************************)
(* A model of wpcli.py, the Ansible module that drives the WP-CLI binary.  *)
(*                                                                         *)
(* One run of main() is modelled step by step: the command, the            *)
(* subcommand and every option are resolved against the registry that the  *)
(* module builds when it is loaded, the options are formatted into flags,  *)
(* the binary is located and executed, and the exit code and the output    *)
(* text are classified into the result reported to the host.               *)
(*                                                                         *)
(* Representation of Python values:                                        *)
(*   - a dict is a function whose DOMAIN is its key set;                   *)
(*   - the request's arguments dict is the sequence of its entries in the  *)
(*     order iteritems() yields them (any order of distinct keys);         *)
(*   - a text (stdout, stderr, msg) is a sequence of atomic chunks, a      *)
(*     chunk being a piece of text without white space at its ends, or a   *)
(*     single white-space character;                                       *)
(*   - a formatted flag and the command line are sequences of pieces.      *)
(*                                                                         *)
(* The module is Python 2 code (dict.iteritems).  module.fail_json and     *)
(* module.exit_json report to the host and end the process; an exception   *)
(* nobody catches ends it with nothing reported.                           *)
(***************************************************************************)
EXTENDS Naturals, Sequences, FiniteSets

\* ---------------------------------------------------------------- bounds

\* The largest number of entries of the request's arguments mapping.
MaxArgs == 2

\* The largest number of chunks of stdout and stderr together (Spec).
MaxOutput == 3

\* The largest number of chunks of stdout and stderr together
\* (SpecClassifier).
MaxClassifierOutput == 4

\* ----------------------------------------------------- Python values

\* Python's None, the value of an arguments entry written without a value.
None == [type |-> "NoneType"]

\* A Python str.
Str(s) == [type |-> "str", s |-> s]

\* alias=False, the default of SubCommand.__init__ and add_sub_command.
\* It is only ever tested for truth, and "" is as false as False.
NoAlias == ""

\* dict[k] = v
Put(d, k, v) == [x \in (DOMAIN d) \cup {k} |-> IF x = k THEN v ELSE d[x]]

\* dict()
EmptyDict == [x \in {} |-> x]

\* ------------------------------------------------------- the registry

\* Option.__init__
Option(name, accepts_values) ==
    [name |-> name, accepts_values |-> accepts_values]

\* SubCommand.__init__: the alias, when given, replaces the name.
SubCommand(name, alias) ==
    [name |-> IF alias # NoAlias THEN alias ELSE name, options |-> EmptyDict]

\* SubCommand.add_option
add_option(sub_command, name, accepts_values) ==
    [sub_command EXCEPT !.options = Put(@, name, Option(name, accepts_values))]

\* Command.__init__
Command(name) == [name |-> name, subCommands |-> EmptyDict]

\* The chained .add_option(...) calls on the SubCommand add_sub_command
\* returned: opts is the sequence of <<name, accepts_values>> pairs.
RECURSIVE add_options(_, _)
add_options(sub_command, opts) ==
    IF opts = <<>> THEN sub_command
    ELSE add_options(add_option(sub_command, opts[1][1], opts[1][2]), Tail(opts))

\* A variant of add_sub_command that stores the SubCommand under the name it
\* has on the command line.
add_sub_command_under_emitted_name(command, name, alias, opts) ==
    [command EXCEPT
        !.subCommands = Put(@, SubCommand(name, alias).name,
                            add_options(SubCommand(name, alias), opts))]

\* Command.add_sub_command, followed by the .add_option calls chained on the
\* SubCommand it returns (the dict holds that same object).  The SubCommand
\* is stored under the name it was declared with, not under its alias.
add_sub_command(command, name, alias, opts) ==
    [command EXCEPT
        !.subCommands = Put(@, name, add_options(SubCommand(name, alias), opts))]

\* The module-level declarations of the core command, in source order.
core ==
    LET c0 == Command("core")
        c1 == add_sub_command(c0, "install", NoAlias,
                  << <<"url", TRUE>>, <<"title", TRUE>>, <<"admin_user", TRUE>>,
                     <<"admin_password", TRUE>>, <<"admin_email", TRUE>>,
                     <<"skip-email", FALSE>> >>)
        c2 == add_sub_command(c1, "update", NoAlias,
                  << <<"minor", FALSE>>, <<"version", TRUE>> >>)
        c3 == add_sub_command(c2, "download", NoAlias, <<>>)
        c4 == add_sub_command(c3, "config", NoAlias,
                  << <<"dbname", TRUE>>, <<"dbuser", TRUE>>, <<"dbpass", TRUE>> >>)
        c5 == add_sub_command(c4, "update", NoAlias, <<>>)
        c6 == add_sub_command(c5, "update-db", NoAlias, <<>>)
        c7 == add_sub_command(c6, "checkUpdate", "check-update", <<>>)
    IN  c7

\* The theme command.
theme == add_sub_command(Command("theme"), "update", NoAlias, << <<"all", FALSE>> >>)

\* The plugin command.
plugin == add_sub_command(Command("plugin"), "update", NoAlias, << <<"all", FALSE>> >>)

\* commands = dict(core=core, theme=theme, plugin=plugin)
commands == [c \in {"core", "theme", "plugin"} |->
                CASE c = "core" -> core
                  [] c = "theme" -> theme
                  [] c = "plugin" -> plugin]

\* ------------------------------------------------------------- texts

\* The chunks a text is made of: the four patterns the classifier looks
\* for (the last one in two halves, which a white-space run separates) and
\* two white-space characters.
Alphabet ==
    {"Success", "update_type", "0/0", "WordPress is at", "the latest version",
     " ", "\n"}

\* What the regular expression \s matches.
IsSpace(c) == c \in {" ", "\n"}

\* re.sub("\s+", " ", string): every maximal run of white space becomes
\* one space.
RECURSIVE collapse(_, _)
collapse(string, in_run) ==
    IF string = <<>> THEN <<>>
    ELSE IF IsSpace(Head(string))
         THEN (IF in_run THEN <<>> ELSE <<" ">>) \o collapse(Tail(string), TRUE)
         ELSE <<Head(string)>> \o collapse(Tail(string), FALSE)

\* str.strip(): white space removed at both ends.
RECURSIVE lstrip(_)
lstrip(string) ==
    IF string # <<>> /\ IsSpace(Head(string)) THEN lstrip(Tail(string)) ELSE string

RECURSIVE rstrip(_)
rstrip(string) ==
    IF string # <<>> /\ IsSpace(string[Len(string)])
    THEN rstrip(SubSeq(string, 1, Len(string) - 1))
    ELSE string

strip(string) == rstrip(lstrip(string))

\* parse_out
parse_out(string) == strip(collapse(string, FALSE))

\* re.search(pattern, string) for a pattern without metacharacters: the
\* pattern occurs somewhere in the string.
re_search(pattern, string) ==
    \E i \in 1..(Len(string) + 1 - Len(pattern)) :
        SubSeq(string, i, i + Len(pattern) - 1) = pattern

\* The four patterns of the classifier.
PatSuccess == <<"Success">>
PatUpdateType == <<"update_type">>
PatZero == <<"0/0">>
PatLatest == <<"WordPress is at", " ", "the latest version">>

\* A variant of changed_of that tests the four patterns in another order.
changed_of_reordered(output) ==
    LET c0 == FALSE
        c1 == IF re_search(PatZero, output) THEN FALSE ELSE c0
        c2 == IF re_search(PatLatest, output) THEN FALSE ELSE c1
        c3 == IF re_search(PatSuccess, output) THEN TRUE ELSE c2
        c4 == IF re_search(PatUpdateType, output) THEN TRUE ELSE c3
    IN  c4

\* The changed flag main computes from the normalized output: four tests
\* in sequence, each assigning the flag when its pattern is found.
changed_of(output) ==
    LET c0 == FALSE
        c1 == IF re_search(PatSuccess, output) THEN TRUE ELSE c0
        c2 == IF re_search(PatUpdateType, output) THEN TRUE ELSE c1
        c3 == IF re_search(PatZero, output) THEN FALSE ELSE c2
        c4 == IF re_search(PatLatest, output) THEN FALSE ELSE c3
    IN  c4

\* The messages of the three lookups, word by word.
MsgCommand == <<"Command", "not", "available">>

\* A variant of MsgSubCommand: get_command's message, copied.
MsgSubCommandCopied == <<"Command", "not", "available">>

MsgSubCommand == <<"SubCommand", "not", "available", "in", "Command">>
MsgOption == <<"Option", "not", "available", "in", "SubCommand">>

\* get_bin_path's message when the binary is not found.
MsgNoBinary == <<"Failed", "to", "find", "required", "executable", "wp">>

\* ------------------------------------------------------------- state

VARIABLES
    params,             \* module.params: command, subcommand, arguments, working_dir
    check_mode,         \* module.check_mode
    pc,                 \* where main is
    parsed_command,     \* main's parsed_command (a Command), <<>> before it is set
    parsed_sub_command, \* main's parsed_sub_command (a SubCommand), <<>> before
    idx,                \* get_formatted_options: the entry the loop is at
    parsed_options,     \* formatted_options, then main's parsed_options
    wp_path,            \* wp_better_command's wp_path, "" before it is set
    cmd,                \* the command line given to run_command, <<>> before
    searches,           \* how many times the binary was looked for
    runs,               \* how many times the binary was executed
    rc, out, err,       \* what run_command returned
    reports,            \* the results reported to the host, in order
    exit_status         \* the process's exit status, 0 while it runs

vars == <<params, check_mode, pc, parsed_command, parsed_sub_command, idx,
          parsed_options, wp_path, cmd, searches, runs, rc, out, err, reports, exit_status>>

\* ------------------------------------------------------------ inputs

CommandNames == {"core", "theme", "plugin", "db"}

SubCommandNames ==
    {"install", "update", "download", "config", "update-db", "checkUpdate",
     "check-update", "activate"}

OptionNames == {"url", "skip-email", "minor", "version", "all", "quiet"}

Values == {None, Str("v")}

WorkingDirs == {"/var/www"}

\* Where get_bin_path may find the binary.
BinPaths == {"/usr/local/bin/wp"}

Entries == [option : OptionNames, value : Values]

\* The arguments mappings of at most n entries, each in every iteration
\* order: sequences of entries with distinct keys.  An absent arguments
\* parameter behaves as the empty mapping (both are false at the test
\* `if options:`).
ArgumentsUpTo(n) ==
    {a \in UNION {[1..k -> Entries] : k \in 0..n} :
        \A i, j \in 1..Len(a) : i # j => a[i].option # a[j].option}

Requests ==
    [command : CommandNames, subcommand : SubCommandNames,
     arguments : ArgumentsUpTo(MaxArgs), working_dir : WorkingDirs]

\* The texts of at most n chunks.
TextsUpTo(n) == UNION {[1..k -> Alphabet] : k \in 0..n}

ExitCodes == {0, 1}

\* The state main starts in, for the request p.
Start(p, cm) ==
    /\ params = p
    /\ check_mode = cm
    /\ pc = "get_command"
    /\ parsed_command = <<>>
    /\ parsed_sub_command = <<>>
    /\ idx = 1
    /\ parsed_options = <<>>
    /\ wp_path = ""
    /\ cmd = <<>>
    /\ searches = 0
    /\ runs = 0
    /\ rc = 0
    /\ out = <<>>
    /\ err = <<>>
    /\ reports = <<>>
    /\ exit_status = 0

Init == \E p \in Requests, cm \in BOOLEAN : Start(p, cm)

\* The requests the classifier is exercised with: a few that end at every
\* step of main, so that the tool's output may be long.
ClassifierRequests ==
    {p \in Requests :
        /\ p.command \in {"core", "db"}
        /\ p.subcommand \in {"install", "activate"}
        /\ Len(p.arguments) = 1
        /\ p.arguments[1].option \in {"url", "quiet"}}

InitClassifier == \E p \in ClassifierRequests : Start(p, FALSE)

\* ----------------------------------------------------------- the host

\* module.fail_json(**kwargs): reports the failure and exits with status 1.
fail_json(kwargs) ==
    /\ reports' = Append(reports, [failed |-> TRUE, result |-> kwargs])
    /\ exit_status' = 1
    /\ pc' = "exited"

\* module.exit_json(**kwargs): reports the result and exits with status 0.
exit_json(kwargs) ==
    /\ reports' = Append(reports, [failed |-> FALSE, result |-> kwargs])
    /\ exit_status' = 0
    /\ pc' = "exited"

\* An exception nobody catches: the interpreter exits with status 1 and
\* the module has reported nothing.
raise ==
    /\ reports' = reports
    /\ exit_status' = 1
    /\ pc' = "raised"

\* ------------------------------------------------------------ actions

\* main: parsed_command = get_command(module, params['command'], commands)
get_command ==
    /\ pc = "get_command"
    /\ IF params.command \in DOMAIN commands
       THEN /\ parsed_command' = commands[params.command]
            /\ pc' = "get_sub_command"
            /\ UNCHANGED <<reports, exit_status>>
       ELSE /\ fail_json([msg |-> MsgCommand])
            /\ UNCHANGED parsed_command
    /\ UNCHANGED <<params, check_mode, parsed_sub_command, idx, parsed_options,
                   wp_path, cmd, searches, runs, rc, out, err>>

\* main: parsed_sub_command = get_sub_command(module, parsed_command, ...)
get_sub_command ==
    /\ pc = "get_sub_command"
    /\ IF params.subcommand \in DOMAIN parsed_command.subCommands
       THEN /\ parsed_sub_command' = parsed_command.subCommands[params.subcommand]
            /\ pc' = "get_formatted_options"
            /\ UNCHANGED <<reports, exit_status>>
       ELSE /\ fail_json([msg |-> MsgSubCommand])
            /\ UNCHANGED parsed_sub_command
    /\ UNCHANGED <<params, check_mode, parsed_command, idx, parsed_options,
                   wp_path, cmd, searches, runs, rc, out, err>>

\* A variant of flag_with_value that leaves the value out.
flag_with_value_dropped(option_instance, value) == <<"--", option_instance.name>>

\* The flag of an option that accepts values:
\* "--%s" % (option_instance.name + "=" + value)
flag_with_value(option_instance, value) ==
    <<"--", option_instance.name, "=", value.s>>

\* The flag of an option that accepts none: "--%s" % option_instance.name
flag_without_value(option_instance) == <<"--", option_instance.name>>

\* get_formatted_options: one turn of the loop over options.iteritems().
\* get_sub_command_option fails the run for an option the SubCommand does
\* not have; str + None raises TypeError.
format_option ==
    /\ pc = "get_formatted_options"
    /\ idx <= Len(params.arguments)
    /\ LET option == params.arguments[idx].option
           value == params.arguments[idx].value
       IN  IF option \notin DOMAIN parsed_sub_command.options
           THEN /\ fail_json([msg |-> MsgOption])
                /\ UNCHANGED <<idx, parsed_options>>
           ELSE LET option_instance == parsed_sub_command.options[option]
                IN  IF option_instance.accepts_values
                    THEN IF value.type = "str"
                         THEN /\ parsed_options' =
                                    Append(parsed_options,
                                           flag_with_value(option_instance, value))
                              /\ idx' = idx + 1
                              /\ UNCHANGED <<pc, reports, exit_status>>
                         ELSE /\ raise
                              /\ UNCHANGED <<idx, parsed_options>>
                    ELSE /\ parsed_options' =
                               Append(parsed_options, flag_without_value(option_instance))
                         /\ idx' = idx + 1
                         /\ UNCHANGED <<pc, reports, exit_status>>
    /\ UNCHANGED <<params, check_mode, parsed_command, parsed_sub_command,
                   wp_path, cmd, searches, runs, rc, out, err>>

\* The --path flag main appends.
path_flag(working_dir) == <<"--", "path", "=", working_dir>>

\* get_formatted_options returns (the loop is over, or the mapping was
\* empty) and main appends the --path flag.
append_path ==
    /\ pc = "get_formatted_options"
    /\ idx > Len(params.arguments)
    /\ parsed_options' = Append(parsed_options, path_flag(params.working_dir))
    /\ pc' = "get_bin_path"
    /\ UNCHANGED <<params, check_mode, parsed_command, parsed_sub_command, idx,
                   wp_path, cmd, searches, runs, rc, out, err, reports, exit_status>>

\* wp_better_command: module.get_bin_path("wp", True, ["/usr/local/bin"]).
\* The binary is there or it is not; a required binary that is missing
\* fails the run.
get_bin_path ==
    /\ pc = "get_bin_path"
    /\ searches' = searches + 1
    /\ \/ \E path \in BinPaths :
            /\ wp_path' = path
            /\ pc' = "run_command"
            /\ UNCHANGED <<reports, exit_status>>
       \/ /\ fail_json([msg |-> MsgNoBinary])
          /\ UNCHANGED wp_path
    /\ UNCHANGED <<params, check_mode, parsed_command, parsed_sub_command, idx,
                   parsed_options, cmd, runs, rc, out, err>>

\* cmd = "%s %s %s %s" % (wp_path, command.name, subcommand.name,
\*                        " ".join(options))
\* Every word of the command line is a sequence of pieces, as a flag is.
command_line(path, command, subcommand, options) ==
    << <<path>>, <<command.name>>, <<subcommand.name>> >> \o options

\* wp_better_command: module.run_command(cmd).  The tool exits with any
\* code and any output of at most n chunks.
run_command(n) ==
    /\ pc = "run_command"
    /\ cmd' = command_line(wp_path, parsed_command, parsed_sub_command, parsed_options)
    /\ runs' = runs + 1
    /\ \E r \in ExitCodes, text \in TextsUpTo(n) :
        \E cut \in 0..Len(text) :
            /\ rc' = r
            /\ out' = SubSeq(text, 1, cut)
            /\ err' = SubSeq(text, cut + 1, Len(text))
    /\ pc' = "classify"
    /\ UNCHANGED <<params, check_mode, parsed_command, parsed_sub_command, idx,
                   parsed_options, wp_path, searches, reports, exit_status>>

run == run_command(MaxOutput)

run_classifier == run_command(MaxClassifierOutput)

\* main, rc != 0: the failure is reported with the normalized stderr.
fail_on_rc ==
    /\ pc = "classify"
    /\ rc # 0
    /\ fail_json([msg |-> parse_out(err), stdout |-> err, changed |-> FALSE])
    /\ UNCHANGED <<params, check_mode, parsed_command, parsed_sub_command, idx,
                   parsed_options, wp_path, cmd, searches, runs, rc, out, err>>

\* A variant of classify that does not look at the exit code.
classify_whatever_rc ==
    /\ pc = "classify"
    /\ LET output == parse_out(out \o err)
       IN  exit_json([msg |-> output, stdout |-> out \o err,
                      changed |-> changed_of(output)])
    /\ UNCHANGED <<params, check_mode, parsed_command, parsed_sub_command, idx,
                   parsed_options, wp_path, cmd, searches, runs, rc, out, err>>

\* main, rc = 0: the output is normalized, classified and reported.
classify ==
    /\ pc = "classify"
    /\ rc = 0
    /\ LET output == parse_out(out \o err)
       IN  exit_json([msg |-> output, stdout |-> out \o err,
                      changed |-> changed_of(output)])
    /\ UNCHANGED <<params, check_mode, parsed_command, parsed_sub_command, idx,
                   parsed_options, wp_path, cmd, searches, runs, rc, out, err>>

Next ==
    \/ get_command
    \/ get_sub_command
    \/ format_option
    \/ append_path
    \/ get_bin_path
    \/ run
    \/ fail_on_rc
    \/ classify

Spec == Init /\ [][Next]_vars

NextClassifier ==
    \/ get_command
    \/ get_sub_command
    \/ format_option
    \/ append_path
    \/ get_bin_path
    \/ run_classifier
    \/ fail_on_rc
    \/ classify

SpecClassifier == InitClassifier /\ [][NextClassifier]_vars

\* ------------------------------------------------------------ claims

\* The run is over: a result was reported, or an exception ended it.
Terminated == pc \in {"exited", "raised"}

\* The run ended while resolving names, before the binary was looked for.
ValidationAbort == pc = "exited" /\ searches = 0

\* The flags of the command line that was executed.
FlagsOf(c) == SubSeq(c, 4, Len(c))

\* The text contains the pattern.
Contains(text, pattern) == re_search(pattern, text)

\* norm is the white-space normalization of raw: the same chunks other
\* than white space in the same order, no white space at either end, and
\* between two chunks one space where raw has white space and nothing
\* where raw has none.
RECURSIVE Gaps(_, _)
Gaps(text, seen_space) ==
    IF text = <<>> THEN <<>>
    ELSE IF IsSpace(Head(text)) THEN Gaps(Tail(text), TRUE)
         ELSE <<seen_space>> \o Gaps(Tail(text), FALSE)

IsNormalizationOf(norm, raw) ==
    LET NotSpace(c) == ~IsSpace(c)
    IN  /\ SelectSeq(norm, NotSpace) = SelectSeq(raw, NotSpace)
        /\ \A i \in 1..Len(norm) : IsSpace(norm[i]) =>
              /\ norm[i] = " "
              /\ 1 < i /\ i < Len(norm)
              /\ ~IsSpace(norm[i + 1])
        /\ norm = <<>> \/ Tail(Gaps(norm, FALSE)) = Tail(Gaps(raw, FALSE))

\* C1: when the subprocess exits with code 0 the run reports success, and
\* changed is true exactly when the normalized stdout+stderr contains
\* "Success" or "update_type" and contains neither "0/0" nor "WordPress is
\* at the latest version"; so "Success" together with "0/0" gives
\* changed = false, and a text with none of the four patterns gives
\* changed = false.
C1_ChangedFollowsTheFourRules ==
    (pc = "exited" /\ runs = 1 /\ rc = 0) =>
        /\ Len(reports) = 1
        /\ ~reports[1].failed
        /\ LET text == reports[1].result.msg
               changed == reports[1].result.changed
           IN  /\ IsNormalizationOf(text, out \o err)
               /\ changed =
                    /\ Contains(text, PatSuccess) \/ Contains(text, PatUpdateType)
                    /\ ~Contains(text, PatZero)
                    /\ ~Contains(text, PatLatest)
               /\ Contains(text, PatSuccess) /\ Contains(text, PatZero) => ~changed
               /\ (\A pat \in {PatSuccess, PatUpdateType, PatZero, PatLatest} :
                      ~Contains(text, pat)) => ~changed

\* C1, witness: an exit code of 0 with "Success" on stdout, "0/0" on
\* stderr, reported unchanged.
C1_Witness ==
    /\ pc = "exited" /\ runs = 1 /\ rc = 0
    /\ Contains(out, PatSuccess)
    /\ Contains(err, PatZero)
    /\ ~Contains(parse_out(out \o err), PatLatest)
    /\ reports[1].result.changed = FALSE

\* C2: when the subprocess exits with a code other than 0 the run reports
\* the failure, once, and no success: msg is the (normalized) stderr,
\* stdout is stderr, changed is false and the process exits with a status
\* other than 0, whatever the texts contain.
C2_NonZeroExitIsFailed ==
    /\ (pc = "classify" /\ rc # 0) => reports = <<>>
    /\ (pc = "exited" /\ runs = 1 /\ rc # 0) =>
        /\ Len(reports) = 1
        /\ reports[1].failed
        /\ IsNormalizationOf(reports[1].result.msg, err)
        /\ reports[1].result.stdout = err
        /\ reports[1].result.changed = FALSE
        /\ exit_status # 0

\* C2, witness: a failed run whose stdout and stderr both say "Success".
C2_Witness ==
    /\ pc = "exited" /\ runs = 1 /\ rc # 0
    /\ Contains(out, PatSuccess)
    /\ Contains(err, PatSuccess)
    /\ reports[1].failed

\* Some name of the request is not in the registry: the command, the
\* subcommand of the command, or an option of the subcommand.
HasUnknownName(p) ==
    \/ p.command \notin DOMAIN commands
    \/ /\ p.command \in DOMAIN commands
       /\ p.subcommand \notin DOMAIN commands[p.command].subCommands
    \/ /\ p.command \in DOMAIN commands
       /\ p.subcommand \in DOMAIN commands[p.command].subCommands
       /\ \E i \in 1..Len(p.arguments) :
            p.arguments[i].option \notin
                DOMAIN commands[p.command].subCommands[p.subcommand].options

\* C3: a request with an unknown command, an unknown subcommand or at
\* least one unknown option ends with the error report of that level, and
\* the tool is neither located nor executed.
C3_UnknownNameIsReported ==
    (Terminated /\ HasUnknownName(params)) =>
        /\ pc = "exited"
        /\ Len(reports) = 1
        /\ reports[1].failed
        /\ reports[1].result.msg \in {MsgCommand, MsgSubCommand, MsgOption}
        /\ searches = 0
        /\ runs = 0

\* The option of the catalog an entry of the request names.
CatalogOption(p, i) ==
    commands[p.command].subCommands[p.subcommand].options[p.arguments[i].option]

\* The request's names are all in the registry and every option that
\* accepts a value has one.
WellFormed(p) ==
    /\ ~HasUnknownName(p)
    /\ \A i \in 1..Len(p.arguments) :
          CatalogOption(p, i).accepts_values => p.arguments[i].value # None

\* The flags the claim expects: one per entry, then --path.
ExpectedFlags(p) ==
    [i \in 1..Len(p.arguments) |->
        IF CatalogOption(p, i).accepts_values
        THEN <<"--", p.arguments[i].option, "=", p.arguments[i].value.s>>
        ELSE <<"--", p.arguments[i].option>>]
    \o << <<"--", "path", "=", p.working_dir>> >>

Declared ==
    {<<"core", "install", NoAlias>>, <<"core", "update", NoAlias>>,
     <<"core", "download", NoAlias>>, <<"core", "config", NoAlias>>,
     <<"core", "update-db", NoAlias>>, <<"core", "checkUpdate", "check-update">>,
     <<"theme", "update", NoAlias>>, <<"plugin", "update", NoAlias>>}

\* The name a declared subcommand has on the command line.
Emitted(d) == IF d[3] # NoAlias THEN d[3] ELSE d[2]

C6_CoreUpdateTakesMinorAndVersion ==
    (params.command = "core" /\ params.subcommand = "update") =>
        /\ pc = "get_formatted_options" =>
              DOMAIN parsed_sub_command.options = {"minor", "version"}
        /\ \A e \in {[option |-> "minor", value |-> None],
                     [option |-> "version", value |-> Str("v")]} :
              (params.arguments = <<e>> /\ Terminated) =>
                 /\ ~ValidationAbort
                 /\ parsed_options[1] =
                       IF e.option = "minor" THEN <<"--", "minor">>
                       ELSE <<"--", "version", "=", "v">>

\* The level main's resolution fails at, for a request with an unknown
\* name: the command is looked up first, then the subcommand, then the
\* options.
Level(p) ==
    IF p.command \notin DOMAIN commands THEN "Command"
    ELSE IF p.subcommand \notin DOMAIN commands[p.command].subCommands
         THEN "SubCommand"
         ELSE "Option"

\* What a message says of a name of the given level.
NotAvailable(level) ==
    CASE level = "Command" -> <<"Command", "not", "available">>
      [] level = "SubCommand" -> <<"SubCommand", "not", "available", "in", "Command">>
      [] level = "Option" -> <<"Option", "not", "available", "in", "SubCommand">>

\* The name whose resolution failed.
InvalidName(p, i) ==
    IF p.command \notin DOMAIN commands THEN p.command
    ELSE IF p.subcommand \notin DOMAIN commands[p.command].subCommands
         THEN p.subcommand
         ELSE p.arguments[i].option

\* The message has the name among its words.
Mentions(msg, name) == \E i \in 1..Len(msg) : msg[i] = name

\* The first resolution failure ends the run with one report, of the
\* level that failed: the command's when the command is unknown (whatever
\* the subcommand is), else the subcommand's, else the option's, for the
\* first unknown option in iteration order, those before it formatted.
OneReportOfTheFailedLevel ==
    /\ Len(reports) = 1
    /\ reports[1].failed
    /\ reports[1].result = [msg |-> NotAvailable(Level(params))]
    /\ exit_status # 0
    /\ runs = 0
    /\ HasUnknownName(params)
    /\ Level(params) = "Option" =>
          /\ idx \in 1..Len(params.arguments)
          /\ Len(parsed_options) = idx - 1
          /\ \A j \in 1..idx :
                (params.arguments[j].option \in DOMAIN parsed_sub_command.options)
                    <=> (j < idx)

\* C7, as amended: names are resolved in the order command, subcommand,
\* option keys, and the first resolution failure ends the run with a
\* single error report whose message states the level (command,
\* subcommand or option) at which a name was invalid and does not state
\* the name; with the command and the subcommand both unknown the report
\* is the command's.
C7_FirstFailureReportsItsLevel ==
    /\ HasUnknownName(params) => searches = 0 /\ runs = 0 /\ Len(reports) <= 1
    /\ ValidationAbort =>
        /\ OneReportOfTheFailedLevel
        /\ ~Mentions(reports[1].result.msg, InvalidName(params, idx))

\* C7, witness: an unknown option after a valid one, reported at the
\* option level.
C7_Witness ==
    /\ ValidationAbort
    /\ idx = 2
    /\ Len(parsed_options) = 1
    /\ reports = <<[failed |-> TRUE,
                    result |-> [msg |-> NotAvailable("Option")]]>>

\* C7, as claimed: the single error report states which name was invalid
\* and at which level.
C7_ReportStatesTheInvalidName ==
    /\ HasUnknownName(params) => searches = 0 /\ runs = 0 /\ Len(reports) <= 1
    /\ ValidationAbort =>
        /\ OneReportOfTheFailedLevel
        /\ Mentions(reports[1].result.msg, InvalidName(params, idx))

\* C8: every command line the module executes includes the --quiet flag.
C8_CommandLineHasQuiet ==
    runs > 0 => \E i \in 1..Len(cmd) : cmd[i] = <<"--", "quiet">>

\* C9: a run made in check mode does not execute the external tool.
C9_CheckModeExecutesNothing == check_mode => runs = 0

\* C10: every run ends in exactly one reported outcome: an abort before
\* any subprocess is started, or Failed after the subprocess exits, or
\* Succeeded (changed or unchanged) after classification.
C10_EveryRunEndsInOneReport ==
    Terminated =>
        /\ pc = "exited"
        /\ Len(reports) = 1
        /\ \/ runs = 0 /\ reports[1].failed
           \/ runs = 1 /\ rc # 0 /\ reports[1].failed
           \/ runs = 1 /\ rc = 0 /\ ~reports[1].failed
              /\ reports[1].result.changed \in BOOLEAN

====
